---- MODULE Spec2Model ----
(***************************************************************************)
(* Video processing pipeline of ai-youtuber-studio.                        *)
(*                                                                         *)
(*   backend/app/services/pipeline_worker.py   orchestrator, enqueue task  *)
(*   backend/app/services/ingest_worker.py     download_audio              *)
(*   backend/app/services/transcribe_worker.py transcribe_audio            *)
(*   backend/app/services/vector_store.py      chunk / index / delete      *)
(*   backend/app/api/channels.py               sync_channel_videos         *)
(*   backend/app/api/content_studio.py         index-video endpoint        *)
(*                                                                         *)
(* The relational store, the blob store, the Chroma collection and the     *)
(* Celery queue are shared state; each worker runs process_video_pipeline  *)
(* one statement group at a time, every database commit and every external *)
(* call being one atomic step.                                             *)
(*                                                                         *)
(* Two statements of process_video_pipeline depend on names that the tree  *)
(* resolves only one way: the import of get_provider at line 61            *)
(* (llm_provider.py defines get_llm_provider only) and the call            *)
(* VectorStore(llm_provider) at line 139 (VectorStore.__init__ takes no    *)
(* provider).  With the modules as they stand both raise.  The model keeps *)
(* each as a step with two outcomes, "raise" (the tree as it stands) and   *)
(* "ok" (the name resolves), so that the statements behind them are        *)
(* covered as well: every behaviour of the code is a behaviour of the      *)
(* model.                                                                  *)
(***************************************************************************)
EXTENDS Integers, Sequences, FiniteSets, TLC

\* ---------------------------------------------------------------- bounds
NumItems == 2
MaxJobs == 2
MaxSyncs == 2
MaxIndexCalls == 3
MaxRequests == 2

Items == 1..NumItems
NumWorkers == 2
Workers == 1..NumWorkers

\* ------------------------------------------------------- values and nulls
\* A nullable column or Python value is NULL (None) or a one-element tuple.
NULL == <<>>
Some(x) == <<x>>

\* Python truthiness of an optional string (pipeline_worker.py:33 "if error:").
Truthy(s) == s # NULL /\ s[1] # ""

SYNCED == "synced"
AUDIO_DOWNLOADING == "audio_downloading"
AUDIO_DOWNLOADED == "audio_downloaded"
TRANSCRIBING == "transcribing"
TRANSCRIBED == "transcribed"
INDEXING == "indexing"
COMPLETE == "complete"
ERROR == "error"

VideoProcessingStatus ==
    {SYNCED, AUDIO_DOWNLOADING, AUDIO_DOWNLOADED, TRANSCRIBING, TRANSCRIBED,
     INDEXING, COMPLETE, ERROR}

\* The external id of item v, and the blob keys derived from it.
YoutubeId(v) == <<"yt", v>>
AudioKey(y) == <<"audio", y, "mp3">>
TranscriptKey(y) == <<"transcripts", y, "json">>

\* str(e) of a failure of an external collaborator: any text, the empty one
\* included (an exception raised without arguments).
ErrMsgs == {"", "provider timeout"}
NotFoundMsg == "Video not found in database"
EmptyTextMsg == "Transcript text is empty"

\* ---------------------------------------------------------------- chunker
\* A transcript text is the sequence of its whitespace-separated words; a
\* word is <<name, length in characters>>.
WordLen(w) == w[2]

RECURSIVE SumLen(_)
SumLen(ws) == IF ws = <<>> THEN 0 ELSE WordLen(Head(ws)) + 1 + SumLen(Tail(ws))

\* Python ws[-k:] for k > 0.
LastWords(ws, k) ==
    IF k >= Len(ws) THEN ws ELSE SubSeq(ws, Len(ws) - k + 1, Len(ws))

\* The loop without the trailing "if current_chunk: chunks.append(...)".
RECURSIVE ChunkLoop_NoRemainder(_, _, _, _, _, _)
ChunkLoop_NoRemainder(words, chunks, current_chunk, current_length, chunk_size, overlap) ==
    IF words = <<>>
    THEN chunks
    ELSE LET word == Head(words)
             cur == Append(current_chunk, word)
             len == current_length + WordLen(word) + 1
             overlap_words == overlap \div 10
             kept == IF overlap_words > 0 THEN LastWords(cur, overlap_words) ELSE <<>>
         IN  IF len >= chunk_size
             THEN ChunkLoop_NoRemainder(Tail(words), Append(chunks, cur), kept,
                                        SumLen(kept), chunk_size, overlap)
             ELSE ChunkLoop_NoRemainder(Tail(words), chunks, cur, len, chunk_size,
                                        overlap)

RECURSIVE ChunkLoop(_, _, _, _, _, _)
ChunkLoop(words, chunks, current_chunk, current_length, chunk_size, overlap) ==
    IF words = <<>>
    THEN IF current_chunk # <<>> THEN Append(chunks, current_chunk) ELSE chunks
    ELSE LET word == Head(words)
             cur == Append(current_chunk, word)
             len == current_length + WordLen(word) + 1
             overlap_words == overlap \div 10
             kept == IF overlap_words > 0 THEN LastWords(cur, overlap_words) ELSE <<>>
         IN  IF len >= chunk_size
             THEN ChunkLoop(Tail(words), Append(chunks, cur), kept, SumLen(kept),
                            chunk_size, overlap)
             ELSE ChunkLoop(Tail(words), chunks, cur, len, chunk_size, overlap)

chunk_transcript(transcript_text, chunk_size, overlap) ==
    ChunkLoop(transcript_text, <<>>, <<>>, 0, chunk_size, overlap)

DefaultChunkSize == 500
DefaultOverlap == 50

\* Texts a speech-to-text response may carry.
EmptyText == <<>>
ShortText == << <<"hello", 5>>, <<"world", 5>> >>
LongText == << <<"a", 249>>, <<"b", 249>>, <<"c", 120>> >>
Texts == {EmptyText, ShortText, LongText}

\* The frame of a chunk_transcript call before it is made.
NoChunkCall ==
    [transcript_text |-> <<>>, chunk_size |-> DefaultChunkSize,
     overlap |-> DefaultOverlap, chunks |-> NULL]

\* ------------------------------------------------------------------ state
VARIABLES
    video,        \* videos table: item -> row
    syncSeen,     \* items visited by the open sync_channel_videos transaction
    syncCount,    \* loop bodies of sync_channel_videos executed so far
    queued_for_processing, \* the counter of the open sync_channel_videos request
    qQueue,       \* queued queue_video_processing tasks, per item
    qPipeline,    \* queued process_video_pipeline tasks, per item
    jobs,         \* process_video_pipeline tasks enqueued so far
    run,          \* worker -> frame of its process_video_pipeline call
    runSeq,       \* process_video_pipeline calls started so far
    audioBlob,    \* blob store: external id -> number of writes of audio/{id}.mp3
    transcriptBlob, \* blob store: external id -> NULL or Some(transcript data)
    collection,   \* Chroma collection: set of chunk records, ids unique
    indexLog,     \* index_transcript / delete_video calls made through the API
    api,          \* frame of the HTTP request being served by an API endpoint
    task,         \* frame of the download_audio / transcribe_audio task it dispatched
    tmpFiles,     \* temporary audio files present on the worker's disk
    reqCount,     \* API requests accepted so far
    chunker       \* a chunk_transcript call: its arguments and its return value

vars == <<video, syncSeen, syncCount, queued_for_processing, qQueue, qPipeline, jobs, run, runSeq,
          audioBlob, transcriptBlob, collection, indexLog, api, task, tmpFiles,
          reqCount, chunker>>

\* The variables of the API endpoints and of the tasks they dispatch.
apiVars == <<api, task, tmpFiles, reqCount>>

\* models.py Video: the columns the pipeline reads and writes; row is the
\* visibility of the row to other sessions.
\* A title is <<text, length in characters>>.
NewVideo ==
    [row |-> "absent", processing_status |-> SYNCED, audio_s3_key |-> NULL,
     transcript_s3_key |-> NULL, processing_error |-> NULL, indexed_at |-> NULL,
     title |-> <<"", 0>>, duration_seconds |-> 0, views |-> 0, likes |-> 0]

\* videos_data of sync_channel_videos: what the video platform reports for an
\* item (channels.py:246-256); the title of item 2 is longer than 100
\* characters.
VideoData(v) ==
    [title |-> <<"title", IF v = 2 THEN 120 ELSE 40>>, duration_seconds |-> 60 * v,
     views |-> 1000 * v, likes |-> 10 * v]

\* Lines 284-289 and 305-314 of channels.py: the columns a sync copies from
\* the fetched data, on an existing row and on a new one.
WithVideoData(row, v) ==
    [row EXCEPT !.title = VideoData(v).title,
                !.duration_seconds = VideoData(v).duration_seconds,
                !.views = VideoData(v).views,
                !.likes = VideoData(v).likes]

Visible(v) == video[v].row = "committed"

NoResult == [kind |-> "none", error |-> NULL, step |-> "", audio_s3_key |-> NULL,
             transcript_s3_key |-> NULL, chunks_indexed |-> 0]

IdleRun ==
    [pc |-> "idle", vid |-> 0, id |-> 0, audio_s3_key |-> NULL,
     transcript_s3_key |-> NULL, transcript_text |-> NULL, transcript_data |-> NULL,
     error_msg |-> NULL, step |-> "", result |-> NoResult, failedStage |-> "none",
     startStatus |-> "none", startAudio |-> FALSE, startTranscript |-> FALSE,
     conc |-> {}, calls |-> {}, last |-> "none", complete |-> FALSE]

Active(w) == run[w].pc \notin {"idle", "done"}

\* The frame of an endpoint call: the ORM object's two keys as last loaded,
\* the steps reported so far (pipeline_status["steps"]), the HTTP status of
\* the response, and the stage whose wait expired, if any.
IdleRequest ==
    [pc |-> "idle", ep |-> "none", vid |-> 0, audio_s3_key |-> NULL,
     transcript_s3_key |-> NULL, steps |-> <<>>, http |-> "none",
     timedOut |-> "none"]

\* The frame of a download_audio or transcribe_audio task: the local audio
\* file of download_audio, whether transcribe_audio's temporary file exists,
\* whether the call has written its object to the blob store, and the value
\* the task returns.
NoTaskResult == [kind |-> "none", error |-> ""]

IdleTask ==
    [pc |-> "idle", fn |-> "none", vid |-> 0, s3_key |-> NULL, local |-> "none",
     temp |-> FALSE, uploaded |-> FALSE, text |-> NULL, result |-> NoTaskResult]

Init ==
    /\ video = [v \in Items |-> NewVideo]
    /\ syncSeen = {}
    /\ syncCount = 0
    /\ queued_for_processing = 0
    /\ qQueue = [v \in Items |-> 0]
    /\ qPipeline = [v \in Items |-> 0]
    /\ jobs = 0
    /\ run = [w \in Workers |-> IdleRun]
    /\ runSeq = 0
    /\ audioBlob = [v \in Items |-> 0]
    /\ transcriptBlob = [v \in Items |-> NULL]
    /\ collection = {}
    /\ indexLog = <<>>
    /\ api = IdleRequest
    /\ task = IdleTask
    /\ tmpFiles = 0
    /\ reqCount = 0
    /\ chunker = NoChunkCall

\* ------------------------------------------------ vector index operations
\* The records index_transcript builds for the chunks of one transcript
\* (vector_store.py:124-145): id {youtube_video_id}_chunk_{i}.
\* ChunkRecords numbering the chunks from one.
ChunkRecords_FromOne(video_id, youtube_video_id, chunks) ==
    {[id |-> <<youtube_video_id, i>>,
      document |-> chunks[i],
      video_id |-> video_id,
      youtube_video_id |-> youtube_video_id,
      chunk_index |-> i,
      total_chunks |-> Len(chunks)] : i \in 1..Len(chunks)}

ChunkRecords(video_id, youtube_video_id, chunks) ==
    {[id |-> <<youtube_video_id, i - 1>>,
      document |-> chunks[i],
      video_id |-> video_id,
      youtube_video_id |-> youtube_video_id,
      chunk_index |-> i - 1,
      total_chunks |-> Len(chunks)] : i \in 1..Len(chunks)}

IdsOf(coll) == {r.id : r \in coll}

\* dict.get(key, default) on a dict given as a record.
Get(d, key, default) == IF key \in DOMAIN d THEN d[key] ELSE default

\* title[:n]
Truncate(title, n) == <<title[1], IF title[2] > n THEN n ELSE title[2]>>

TitleLimit == 100

\* metadata=None
NoMetadata == <<>>

\* Lines 138-144: the optional metadata copied into a chunk's metadata.
WithMetadata(r, metadata) ==
    IF metadata = NoMetadata
    THEN r
    ELSE r @@ [views |-> Get(metadata, "views", 0),
               likes |-> Get(metadata, "likes", 0),
               title |-> Truncate(Get(metadata, "title", <<"", 0>>), TitleLimit),
               duration |-> Get(metadata, "duration", 0)]

\* The metadata argument built by process_video_pipeline
\* (pipeline_worker.py:129-135) and by the content-studio endpoints
\* (content_studio.py:188-193, 349-354) from the loaded row.
PipelineMetadata(v, row) ==
    [video_id |-> v, youtube_video_id |-> YoutubeId(v), title |-> row.title,
     duration_seconds |-> row.duration_seconds, published_at |-> NULL]

EndpointMetadata(row) ==
    [views |-> row.views, likes |-> row.likes, title |-> row.title,
     duration |-> row.duration_seconds]

\* collection.add of Chroma on ids the collection already holds: the source
\* does not fix it; either the call raises and adds nothing, or the records
\* with a fresh id are added and the others are skipped.
DupPolicies == {"raise", "skip"}
DupIdMsg == "ids already exist"

\* VectorStore.index_transcript: the collection after the call and what the
\* call returns or raises.
\* index_transcript removing the chunks the collection holds for the external
\* id before it chunks and embeds the new text.
index_transcript_ReplacesFirst(coll, video_id, youtube_video_id, transcript_data, metadata, embed_error, dup) ==
    LET transcript_text == transcript_data.text
        chunks == chunk_transcript(transcript_text, DefaultChunkSize, DefaultOverlap)
        recs == {WithMetadata(r, metadata) :
                    r \in ChunkRecords(video_id, youtube_video_id, chunks)}
        kept == {r \in coll : r.youtube_video_id # youtube_video_id}
    IN  IF transcript_text = <<>>
        THEN [ok |-> FALSE, coll |-> kept, n |-> 0, error |-> EmptyTextMsg,
              embedded |-> <<>>, added |-> {}]
        ELSE IF embed_error # NULL
        THEN [ok |-> FALSE, coll |-> kept, n |-> 0, error |-> embed_error[1],
              embedded |-> <<chunks>>, added |-> {}]
        ELSE [ok |-> TRUE, coll |-> kept \cup recs, n |-> Len(chunks), error |-> "",
              embedded |-> <<chunks>>, added |-> recs]

\* embedded: the batches handed to llm_provider.embed, in call order; added:
\* the records handed to collection.add.
index_transcript(coll, video_id, youtube_video_id, transcript_data, metadata, embed_error, dup) ==
    LET transcript_text == transcript_data.text
        chunks == chunk_transcript(transcript_text, DefaultChunkSize, DefaultOverlap)
        recs == {WithMetadata(r, metadata) :
                    r \in ChunkRecords(video_id, youtube_video_id, chunks)}
        clash == \E r \in recs : r.id \in IdsOf(coll)
    IN  IF transcript_text = <<>>
        THEN [ok |-> FALSE, coll |-> coll, n |-> 0, error |-> EmptyTextMsg,
              embedded |-> <<>>, added |-> {}]
        ELSE IF embed_error # NULL
        THEN [ok |-> FALSE, coll |-> coll, n |-> 0, error |-> embed_error[1],
              embedded |-> <<chunks>>, added |-> {}]
        ELSE IF clash /\ dup = "raise"
        THEN [ok |-> FALSE, coll |-> coll, n |-> 0, error |-> DupIdMsg,
              embedded |-> <<chunks>>, added |-> recs]
        ELSE [ok |-> TRUE,
              coll |-> coll \cup {r \in recs : r.id \notin IdsOf(coll)},
              n |-> Len(chunks), error |-> "",
              embedded |-> <<chunks>>, added |-> recs]

\* VectorStore.delete_video: get(where youtube_video_id) then delete(ids).
delete_video(coll, youtube_video_id) ==
    {r \in coll : r.youtube_video_id # youtube_video_id}

\* ------------------------------------------------------ database helpers
\* update_video_status resetting the item's keys when it records a failure.
update_video_status_ClearsKeys(vid, v, status, error, db_ok) ==
    IF db_ok /\ vid[v].row = "committed"
    THEN [vid EXCEPT ![v].processing_status = status,
                     ![v].processing_error = IF Truthy(error) THEN error ELSE @,
                     ![v].audio_s3_key = IF status = ERROR THEN NULL ELSE @,
                     ![v].transcript_s3_key = IF status = ERROR THEN NULL ELSE @]
    ELSE vid

\* update_video_status: a fresh session; the row is updated only if the query
\* finds it.  db_ok: whether the session's statements succeed; when they do
\* not, the handler of lines 37-39 logs, rolls back and returns normally.
update_video_status(vid, v, status, error, db_ok) ==
    IF db_ok /\ vid[v].row = "committed"
    THEN [vid EXCEPT ![v].processing_status = status,
                     ![v].processing_error = IF Truthy(error) THEN error ELSE @]
    ELSE vid


\* The status a call has last written to the row (history of the call): the
\* write happens only if the row is found.
Wrote(w, status, db_ok) ==
    IF db_ok /\ video[run[w].vid].row = "committed" THEN status ELSE run[w].last

\* Whether the call has written COMPLETE so far (history of the call).
WroteComplete(w, status) ==
    run[w].complete \/ (video[run[w].vid].row = "committed" /\ status = COMPLETE)

\* --------------------------------------------------- sync_channel_videos
\* SyncVideo without the test of channels.py:295: every visited item is queued.
SyncVideo_NoStatusCheck(v, enq_ok) ==
    /\ syncCount < MaxSyncs
    /\ v \notin syncSeen
    /\ video[v].row \in {"absent", "committed"}
    /\ LET wants == TRUE
           enq == wants /\ enq_ok
       IN  /\ enq => jobs < MaxJobs
           /\ (~wants) => enq_ok
           /\ qQueue' = [qQueue EXCEPT ![v] = IF enq THEN @ + 1 ELSE @]
           /\ jobs' = IF enq THEN jobs + 1 ELSE jobs
           /\ queued_for_processing' = IF enq THEN queued_for_processing + 1
                                       ELSE queued_for_processing
    /\ video' = [video EXCEPT ![v] =
                    [WithVideoData(@, v) EXCEPT !.row = IF @ = "absent" THEN "flushed" ELSE @]]
    /\ syncSeen' = syncSeen \cup {v}
    /\ syncCount' = syncCount + 1
    /\ UNCHANGED <<chunker, apiVars, qPipeline, run, runSeq, audioBlob, transcriptBlob, collection, indexLog>>

\* SyncVideo counting the item before the enqueue call is made.
SyncVideo_CountsBeforeEnqueue(v, enq_ok) ==
    /\ syncCount < MaxSyncs
    /\ v \notin syncSeen
    /\ video[v].row \in {"absent", "committed"}
    /\ LET wants == \/ video[v].row = "absent"
                    \/ video[v].processing_status \in {SYNCED, ERROR}
           enq == wants /\ enq_ok
       IN  /\ enq => jobs < MaxJobs
           /\ (~wants) => enq_ok
           /\ qQueue' = [qQueue EXCEPT ![v] = IF enq THEN @ + 1 ELSE @]
           /\ jobs' = IF enq THEN jobs + 1 ELSE jobs
           /\ queued_for_processing' = IF wants THEN queued_for_processing + 1
                                       ELSE queued_for_processing
    /\ video' = [video EXCEPT ![v] =
                    [WithVideoData(@, v) EXCEPT !.row = IF @ = "absent" THEN "flushed" ELSE @]]
    /\ syncSeen' = syncSeen \cup {v}
    /\ syncCount' = syncCount + 1
    /\ UNCHANGED <<chunker, apiVars, qPipeline, run, runSeq, audioBlob, transcriptBlob, collection, indexLog>>

\* One iteration of the loop over the fetched videos (channels.py:273-334).
\* enq_ok: whether queue_video_processing.delay returns or raises.
SyncVideo(v, enq_ok) ==
    /\ syncCount < MaxSyncs
    /\ v \notin syncSeen
    /\ video[v].row \in {"absent", "committed"}
    /\ LET wants == \/ video[v].row = "absent"
                    \/ video[v].processing_status \in {SYNCED, ERROR}
           enq == wants /\ enq_ok
       IN  /\ enq => jobs < MaxJobs
           /\ (~wants) => enq_ok
           /\ qQueue' = [qQueue EXCEPT ![v] = IF enq THEN @ + 1 ELSE @]
           /\ jobs' = IF enq THEN jobs + 1 ELSE jobs
           /\ queued_for_processing' = IF enq THEN queued_for_processing + 1
                                       ELSE queued_for_processing
    /\ video' = [video EXCEPT ![v] =
                    [WithVideoData(@, v) EXCEPT !.row = IF @ = "absent" THEN "flushed" ELSE @]]
    /\ syncSeen' = syncSeen \cup {v}
    /\ syncCount' = syncCount + 1
    /\ UNCHANGED <<chunker, apiVars, qPipeline, run, runSeq, audioBlob, transcriptBlob, collection, indexLog>>

\* The commit that ends the request (channels.py:336-342); the response
\* reports the counter (lines 348-354) and the request's locals are gone.
SyncCommit ==
    /\ syncSeen # {}
    /\ video' = [v \in Items |->
                   IF video[v].row = "flushed"
                   THEN [video[v] EXCEPT !.row = "committed"]
                   ELSE video[v]]
    /\ syncSeen' = {}
    /\ queued_for_processing' = 0
    /\ UNCHANGED <<chunker, apiVars, syncCount, qQueue, qPipeline, jobs, run, runSeq, audioBlob,
                   transcriptBlob, collection, indexLog>>

\* ------------------------------------------------ queue_video_processing
\* queue_video_processing that also marks the item as being processed.
queue_video_processing_WritesStatus(v) ==
    /\ qQueue[v] > 0
    /\ qQueue' = [qQueue EXCEPT ![v] = @ - 1]
    /\ qPipeline' = [qPipeline EXCEPT ![v] = @ + 1]
    /\ video' = update_video_status(video, v, AUDIO_DOWNLOADING, NULL, TRUE)
    /\ UNCHANGED <<chunker, apiVars, syncSeen, syncCount, queued_for_processing, jobs, run, runSeq, audioBlob,
                   transcriptBlob, collection, indexLog>>

\* The lightweight task: schedules the pipeline task and returns.
queue_video_processing(v) ==
    /\ qQueue[v] > 0
    /\ qQueue' = [qQueue EXCEPT ![v] = @ - 1]
    /\ qPipeline' = [qPipeline EXCEPT ![v] = @ + 1]
    /\ UNCHANGED <<chunker, apiVars, video, syncSeen, syncCount, queued_for_processing, jobs, run, runSeq, audioBlob,
                   transcriptBlob, collection, indexLog>>

\* ------------------------------------------------ process_video_pipeline
\* Outcome of a collaborator call: it returns a success result, returns a
\* failure result carrying str(e), or raises.
StageOutcomes ==
    {[kind |-> "ok", error |-> ""]}
        \cup {[kind |-> k, error |-> m] : k \in {"fail", "raise"}, m \in ErrMsgs}

\* Lines 57-63: whether the function-level imports resolve.
ImportOutcomes == {"ok", "raise"}
\* Lines 138-139: whether get_provider() / VectorStore(llm_provider) return.
CtorOutcomes == {"ok", "raise"}
CtorErrMsg == "VectorStore.__init__() takes 1 positional argument but 2 were given"

Failure(w, msg, step) ==
    [kind |-> "failure", error |-> Some(msg), step |-> step,
     audio_s3_key |-> NULL, transcript_s3_key |-> NULL, chunks_indexed |-> 0]

\* A worker takes a process_video_pipeline task off the queue and runs the
\* imports of lines 57-63, which are outside the try block.
StartRun(w, v, imp) ==
    /\ ~Active(w)
    /\ \A o \in Workers : o < w => Active(o)
    /\ qPipeline[v] > 0
    /\ qPipeline' = [qPipeline EXCEPT ![v] = @ - 1]
    /\ runSeq' = runSeq + 1
    /\ run' = [run EXCEPT ![w] =
                 [IdleRun EXCEPT
                    !.pc = IF imp = "ok" THEN "upd_downloading" ELSE "done",
                    !.vid = v,
                    !.id = runSeq + 1,
                    !.result = IF imp = "ok" THEN NoResult
                               ELSE [NoResult EXCEPT !.kind = "raised"],
                    !.startStatus = IF Visible(v) THEN video[v].processing_status
                                    ELSE "absent",
                    !.startAudio = Visible(v) /\ video[v].audio_s3_key # NULL,
                    !.startTranscript = Visible(v) /\ video[v].transcript_s3_key # NULL,
                    !.conc = {o \in Workers \ {w} : Active(o) /\ run[o].vid = v}]]
    /\ UNCHANGED <<chunker, apiVars, video, syncSeen, syncCount, queued_for_processing, qQueue, jobs, audioBlob,
                   transcriptBlob, collection, indexLog>>

\* UpdDownloading that goes on to the transcription stage without the fetch.
UpdDownloading_SkipsFetch(w, db_ok) ==
    /\ run[w].pc = "upd_downloading"
    /\ video' = update_video_status(video, run[w].vid, AUDIO_DOWNLOADING, NULL, db_ok)
    /\ run' = [run EXCEPT ![w].pc = "upd_transcribing",
                          ![w].last = Wrote(w, AUDIO_DOWNLOADING, db_ok),
                          ![w].complete = WroteComplete(w, AUDIO_DOWNLOADING)]
    /\ UNCHANGED <<chunker, apiVars, syncSeen, syncCount, queued_for_processing, qQueue, qPipeline, jobs, runSeq, audioBlob,
                   transcriptBlob, collection, indexLog>>

\* Line 69.
UpdDownloading(w, db_ok) ==
    /\ run[w].pc = "upd_downloading"
    /\ video' = update_video_status(video, run[w].vid, AUDIO_DOWNLOADING, NULL, db_ok)
    /\ run' = [run EXCEPT ![w].pc = "download",
                          ![w].last = Wrote(w, AUDIO_DOWNLOADING, db_ok),
                          ![w].complete = WroteComplete(w, AUDIO_DOWNLOADING)]
    /\ UNCHANGED <<chunker, apiVars, syncSeen, syncCount, queued_for_processing, qQueue, qPipeline, jobs, runSeq, audioBlob,
                   transcriptBlob, collection, indexLog>>

\* Download without the return of lines 75-80: a failure result falls through
\* to the next stage.
Download_NoReturnOnFailure(w, out) ==
    /\ run[w].pc = "download"
    /\ audioBlob' = [audioBlob EXCEPT ![run[w].vid] = IF out.kind = "ok" THEN @ + 1 ELSE @]
    /\ run' = [run EXCEPT
                 ![w].calls = @ \cup {"download"},
                 ![w].audio_s3_key = IF out.kind = "ok"
                                     THEN Some(AudioKey(YoutubeId(run[w].vid))) ELSE @,
                 ![w].error_msg = IF out.kind = "ok" THEN @ ELSE Some(out.error),
                 ![w].step = IF out.kind = "fail" THEN "audio_download" ELSE @,
                 ![w].failedStage = IF out.kind = "ok" THEN @ ELSE "fetch",
                 ![w].pc = CASE out.kind = "ok" -> "save_audio"
                             [] out.kind = "fail" -> "upd_transcribing"
                             [] OTHER -> "except"]
    /\ UNCHANGED <<chunker, apiVars, video, syncSeen, syncCount, queued_for_processing, qQueue, qPipeline, jobs, runSeq,
                   transcriptBlob, collection, indexLog>>

\* Lines 72-80: download_audio(youtube_video_id); on success the audio blob
\* has been uploaded under audio/{id}.mp3 (ingest_worker.py:76-92).
Download(w, out) ==
    /\ run[w].pc = "download"
    /\ audioBlob' = [audioBlob EXCEPT ![run[w].vid] = IF out.kind = "ok" THEN @ + 1 ELSE @]
    /\ run' = [run EXCEPT
                 ![w].calls = @ \cup {"download"},
                 ![w].audio_s3_key = IF out.kind = "ok"
                                     THEN Some(AudioKey(YoutubeId(run[w].vid))) ELSE @,
                 ![w].error_msg = IF out.kind = "ok" THEN @ ELSE Some(out.error),
                 ![w].step = IF out.kind = "fail" THEN "audio_download" ELSE @,
                 ![w].failedStage = IF out.kind = "ok" THEN @ ELSE "fetch",
                 ![w].pc = CASE out.kind = "ok" -> "save_audio"
                             [] out.kind = "fail" -> "upd_error"
                             [] OTHER -> "except"]
    /\ UNCHANGED <<chunker, apiVars, video, syncSeen, syncCount, queued_for_processing, qQueue, qPipeline, jobs, runSeq,
                   transcriptBlob, collection, indexLog>>

\* Lines 83-89.
SaveAudio(w) ==
    /\ run[w].pc = "save_audio"
    /\ LET v == run[w].vid
       IN  /\ video' = IF Visible(v)
                       THEN [video EXCEPT ![v].audio_s3_key = run[w].audio_s3_key,
                                          ![v].processing_status = AUDIO_DOWNLOADED]
                       ELSE video
           /\ run' = [run EXCEPT ![w].pc = "upd_transcribing",
                                 ![w].last = Wrote(w, AUDIO_DOWNLOADED, TRUE),
                          ![w].complete = WroteComplete(w, AUDIO_DOWNLOADED)]
    /\ UNCHANGED <<chunker, apiVars, syncSeen, syncCount, queued_for_processing, qQueue, qPipeline, jobs, runSeq, audioBlob,
                   transcriptBlob, collection, indexLog>>

\* Line 92.
UpdTranscribing(w, db_ok) ==
    /\ run[w].pc = "upd_transcribing"
    /\ video' = update_video_status(video, run[w].vid, TRANSCRIBING, NULL, db_ok)
    /\ run' = [run EXCEPT ![w].pc = "transcribe",
                          ![w].last = Wrote(w, TRANSCRIBING, db_ok),
                          ![w].complete = WroteComplete(w, TRANSCRIBING)]
    /\ UNCHANGED <<chunker, apiVars, syncSeen, syncCount, queued_for_processing, qQueue, qPipeline, jobs, runSeq, audioBlob,
                   transcriptBlob, collection, indexLog>>

\* Lines 95-103: transcribe_audio(audio_s3_key, youtube_video_id); on success
\* the transcript, whatever its text, has been uploaded under
\* transcripts/{id}.json (transcribe_worker.py:63-113).
Transcribe(w, out, text) ==
    /\ run[w].pc = "transcribe"
    /\ out.kind # "ok" => text = EmptyText
    /\ transcriptBlob' =
          [transcriptBlob EXCEPT ![run[w].vid] =
              IF out.kind = "ok" THEN Some([text |-> text, language |-> "en"]) ELSE @]
    /\ run' = [run EXCEPT
                 ![w].calls = @ \cup {"transcribe"},
                 ![w].transcript_s3_key = IF out.kind = "ok"
                                          THEN Some(TranscriptKey(YoutubeId(run[w].vid)))
                                          ELSE @,
                 ![w].error_msg = IF out.kind = "ok" THEN @ ELSE Some(out.error),
                 ![w].transcript_text = IF out.kind = "ok" THEN Some(text) ELSE @,
                 ![w].step = IF out.kind = "fail" THEN "transcription" ELSE @,
                 ![w].failedStage = IF out.kind = "ok" THEN @ ELSE "transcribe",
                 ![w].pc = CASE out.kind = "ok" -> "save_transcript"
                             [] out.kind = "fail" -> "upd_error"
                             [] OTHER -> "except"]
    /\ UNCHANGED <<chunker, apiVars, video, syncSeen, syncCount, queued_for_processing, qQueue, qPipeline, jobs, runSeq,
                   audioBlob, collection, indexLog>>

\* SaveTranscript with the wrong member of the enum written at line 110.
SaveTranscript_WritesComplete(w) ==
    /\ run[w].pc = "save_transcript"
    /\ LET v == run[w].vid
       IN  /\ video' = IF Visible(v)
                       THEN [video EXCEPT ![v].transcript_s3_key = run[w].transcript_s3_key,
                                          ![v].processing_status = COMPLETE]
                       ELSE video
           /\ run' = [run EXCEPT ![w].pc = "upd_indexing",
                                 ![w].last = Wrote(w, COMPLETE, TRUE),
                                 ![w].complete = WroteComplete(w, COMPLETE)]
    /\ UNCHANGED <<chunker, apiVars, syncSeen, syncCount, queued_for_processing, qQueue, qPipeline, jobs, runSeq, audioBlob,
                   transcriptBlob, collection, indexLog>>

\* Lines 106-112.
SaveTranscript(w) ==
    /\ run[w].pc = "save_transcript"
    /\ LET v == run[w].vid
       IN  /\ video' = IF Visible(v)
                       THEN [video EXCEPT ![v].transcript_s3_key = run[w].transcript_s3_key,
                                          ![v].processing_status = TRANSCRIBED]
                       ELSE video
           /\ run' = [run EXCEPT ![w].pc = "upd_indexing",
                                 ![w].last = Wrote(w, TRANSCRIBED, TRUE),
                          ![w].complete = WroteComplete(w, TRANSCRIBED)]
    /\ UNCHANGED <<chunker, apiVars, syncSeen, syncCount, queued_for_processing, qQueue, qPipeline, jobs, runSeq, audioBlob,
                   transcriptBlob, collection, indexLog>>

\* Line 115.
UpdIndexing(w, db_ok) ==
    /\ run[w].pc = "upd_indexing"
    /\ video' = update_video_status(video, run[w].vid, INDEXING, NULL, db_ok)
    /\ run' = [run EXCEPT ![w].pc = "fetch_transcript",
                          ![w].last = Wrote(w, INDEXING, db_ok),
                          ![w].complete = WroteComplete(w, INDEXING)]
    /\ UNCHANGED <<chunker, apiVars, syncSeen, syncCount, queued_for_processing, qQueue, qPipeline, jobs, runSeq, audioBlob,
                   transcriptBlob, collection, indexLog>>

\* Lines 119-127: the transcript is read back from the blob store, then the
\* row is loaded; a missing row raises.
LoadVideo(w) ==
    /\ run[w].pc = "fetch_transcript"
    /\ run' = [run EXCEPT
                 ![w].transcript_data = transcriptBlob[run[w].vid],
                 ![w].error_msg = IF Visible(run[w].vid) THEN @ ELSE Some(NotFoundMsg),
                 ![w].failedStage = IF Visible(run[w].vid) THEN @ ELSE "load",
                 ![w].pc = IF Visible(run[w].vid) THEN "index" ELSE "except"]
    /\ UNCHANGED <<chunker, apiVars, video, syncSeen, syncCount, queued_for_processing, qQueue, qPipeline, jobs, runSeq,
                   audioBlob, transcriptBlob, collection, indexLog>>

\* Lines 138-148: the vector store is constructed and index_transcript runs.
Index(w, ctor, embed_error, dup) ==
    /\ run[w].pc = "index"
    /\ ctor = "raise" => embed_error = NULL /\ dup = "skip"
    /\ LET v == run[w].vid
           r == index_transcript(collection, v, YoutubeId(v), run[w].transcript_data[1],
                                 PipelineMetadata(v, video[v]), embed_error, dup)
       IN  IF ctor = "raise"
           THEN /\ collection' = collection
                /\ run' = [run EXCEPT ![w].pc = "except",
                                      ![w].failedStage = "construct",
                                      ![w].error_msg = Some(CtorErrMsg)]
           ELSE /\ collection' = r.coll
                /\ run' = [run EXCEPT
                             ![w].calls = @ \cup {"index"},
                             ![w].pc = IF r.ok THEN "mark_complete" ELSE "except",
                             ![w].failedStage = IF r.ok THEN @ ELSE "index",
                             ![w].error_msg = IF r.ok THEN @ ELSE Some(r.error),
                             ![w].result = [@ EXCEPT !.chunks_indexed = r.n]]
    /\ UNCHANGED <<chunker, apiVars, video, syncSeen, syncCount, queued_for_processing, qQueue, qPipeline, jobs, runSeq,
                   audioBlob, transcriptBlob, indexLog>>

\* The frame a finished call leaves behind: its return value and what it
\* recorded; the locals are gone.
Returned(w, result, last, complete) ==
    [IdleRun EXCEPT !.pc = "done", !.vid = run[w].vid, !.id = run[w].id,
                    !.result = result, !.last = last, !.complete = complete]

\* Lines 151-162: the row loaded at line 125 is marked complete and the
\* success result is returned.
MarkComplete(w) ==
    /\ run[w].pc = "mark_complete"
    /\ LET v == run[w].vid
       IN  /\ video' = [video EXCEPT ![v].processing_status = COMPLETE,
                                     ![v].indexed_at = Some(run[w].id)]
           /\ run' = [run EXCEPT ![w] =
                        Returned(w, [kind |-> "success", error |-> NULL, step |-> "",
                                     audio_s3_key |-> run[w].audio_s3_key,
                                     transcript_s3_key |-> run[w].transcript_s3_key,
                                     chunks_indexed |-> run[w].result.chunks_indexed],
                                 Wrote(w, COMPLETE, TRUE), WroteComplete(w, COMPLETE))]
    /\ UNCHANGED <<chunker, apiVars, syncSeen, syncCount, queued_for_processing, qQueue, qPipeline, jobs, runSeq, audioBlob,
                   transcriptBlob, collection, indexLog>>

\* Lines 76-77 and 99-100: a stage returned a failure result.
UpdError(w, db_ok) ==
    /\ run[w].pc = "upd_error"
    /\ video' = update_video_status(video, run[w].vid, ERROR, run[w].error_msg, db_ok)
    /\ run' = [run EXCEPT ![w] =
                 Returned(w, Failure(w, run[w].error_msg[1], run[w].step),
                          Wrote(w, ERROR, db_ok), WroteComplete(w, ERROR))]
    /\ UNCHANGED <<chunker, apiVars, syncSeen, syncCount, queued_for_processing, qQueue, qPipeline, jobs, runSeq, audioBlob,
                   transcriptBlob, collection, indexLog>>

\* Except whose status update is not restricted to the call's own item.
Except_MarksAllItems(w, db_ok) ==
    /\ run[w].pc = "except"
    /\ video' = [v \in Items |->
                   update_video_status(video, v, ERROR, run[w].error_msg, db_ok)[v]]
    /\ run' = [run EXCEPT ![w] =
                 Returned(w, Failure(w, run[w].error_msg[1], "unknown"),
                          Wrote(w, ERROR, db_ok), WroteComplete(w, ERROR))]
    /\ UNCHANGED <<chunker, apiVars, syncSeen, syncCount, queued_for_processing, qQueue, qPipeline, jobs, runSeq, audioBlob,
                   transcriptBlob, collection, indexLog>>

\* Lines 164-168: an exception raised inside the try block.
Except(w, db_ok) ==
    /\ run[w].pc = "except"
    /\ video' = update_video_status(video, run[w].vid, ERROR, run[w].error_msg, db_ok)
    /\ run' = [run EXCEPT ![w] =
                 Returned(w, Failure(w, run[w].error_msg[1], "unknown"),
                          Wrote(w, ERROR, db_ok), WroteComplete(w, ERROR))]
    /\ UNCHANGED <<chunker, apiVars, syncSeen, syncCount, queued_for_processing, qQueue, qPipeline, jobs, runSeq, audioBlob,
                   transcriptBlob, collection, indexLog>>

EmbedErrors == {NULL, Some("provider timeout")}

Next ==
    \/ \E v \in Items, enq_ok \in BOOLEAN : SyncVideo(v, enq_ok)
    \/ SyncCommit
    \/ \E v \in Items : queue_video_processing(v)
    \/ \E w \in Workers, v \in Items, imp \in ImportOutcomes : StartRun(w, v, imp)
    \/ \E w \in Workers, db_ok \in BOOLEAN : UpdDownloading(w, db_ok)
    \/ \E w \in Workers, out \in StageOutcomes : Download(w, out)
    \/ \E w \in Workers : SaveAudio(w)
    \/ \E w \in Workers, db_ok \in BOOLEAN : UpdTranscribing(w, db_ok)
    \/ \E w \in Workers, out \in StageOutcomes, text \in Texts : Transcribe(w, out, text)
    \/ \E w \in Workers : SaveTranscript(w)
    \/ \E w \in Workers, db_ok \in BOOLEAN : UpdIndexing(w, db_ok)
    \/ \E w \in Workers : LoadVideo(w)
    \/ \E w \in Workers, ctor \in CtorOutcomes, e \in EmbedErrors, dup \in DupPolicies :
          Index(w, ctor, e, dup)
    \/ \E w \in Workers : MarkComplete(w)
    \/ \E w \in Workers, db_ok \in BOOLEAN : UpdError(w, db_ok)
    \/ \E w \in Workers, db_ok \in BOOLEAN : Except(w, db_ok)

Spec == Init /\ [][Next]_vars

\* ------------------------------------------- direct use of the vector index
\* index_transcript and delete_video called on the shared collection, as the
\* index-video endpoint does with a stored transcript
\* (content_studio.py:183-196); each call is logged.
IndexCall(v, text, embed_error, dup) ==
    /\ Len(indexLog) < MaxIndexCalls
    /\ LET r == index_transcript(collection, v, YoutubeId(v),
                                 [text |-> text, language |-> "en"],
                                 EndpointMetadata(video[v]), embed_error, dup)
       IN  /\ collection' = r.coll
           /\ indexLog' = Append(indexLog,
                 [op |-> "index", yt |-> YoutubeId(v), video_id |-> v, ok |-> r.ok,
                  chunks |-> IF r.ok
                             THEN chunk_transcript(text, DefaultChunkSize, DefaultOverlap)
                             ELSE <<>>,
                  n |-> r.n, error |-> r.error, embedded |-> r.embedded,
                  added |-> r.added])
    /\ UNCHANGED <<chunker, apiVars, video, syncSeen, syncCount, queued_for_processing, qQueue, qPipeline, jobs, run, runSeq,
                   audioBlob, transcriptBlob>>

DeleteCall(v) ==
    /\ Len(indexLog) < MaxIndexCalls
    /\ collection' = delete_video(collection, YoutubeId(v))
    /\ indexLog' = Append(indexLog,
          [op |-> "delete", yt |-> YoutubeId(v), video_id |-> v, ok |-> TRUE,
           chunks |-> <<>>, n |-> 0, error |-> "", embedded |-> <<>>, added |-> {}])
    /\ UNCHANGED <<chunker, apiVars, video, syncSeen, syncCount, queued_for_processing, qQueue, qPipeline, jobs, run, runSeq,
                   audioBlob, transcriptBlob>>

NextIndex ==
    \/ \E v \in Items, text \in Texts, e \in EmbedErrors, dup \in DupPolicies :
          IndexCall(v, text, e, dup)
    \/ \E v \in Items : DeleteCall(v)

SpecIndex == Init /\ [][NextIndex]_vars

\* ------------------------------------------- download_audio as a task
\* The variables an endpoint or a task leaves alone.
pipeVars == <<syncSeen, syncCount, queued_for_processing, qQueue, qPipeline, jobs, run, runSeq, indexLog>>

TaskFailure == [kind |-> "failure", error |-> "stage error"]
TaskSuccess == [kind |-> "success", error |-> ""]
TaskRaised == [kind |-> "raised", error |-> "stage error"]

\* What yt-dlp and its post-processor leave in the temporary directory.
LocalFiles == {"mp3", "other", "none"}

\* ingest_worker.py:27-52: get_storage_client(), the temporary directory and
\* extract_info(download=True).  get_storage_client is outside the try, so
\* its exception leaves the task; one of extract_info is caught at line 94.
DlExtract(out, produced) ==
    /\ task.pc = "dl_extract"
    /\ out # "ok" => produced = "none"
    /\ task' = CASE out = "ok" -> [task EXCEPT !.pc = "dl_locate", !.local = produced]
                 [] out = "fail" -> [task EXCEPT !.pc = "dl_exit", !.result = TaskFailure]
                 [] OTHER -> [task EXCEPT !.pc = "ret", !.result = TaskRaised]
    /\ UNCHANGED <<chunker, pipeVars, video, audioBlob, transcriptBlob, collection, api,
                   tmpFiles, reqCount>>

\* ingest_worker.py:55-73: the .mp3 is looked for, then any file of the
\* video; none found raises FileNotFoundError inside the try.
DlLocate ==
    /\ task.pc = "dl_locate"
    /\ task' = IF task.local = "none"
               THEN [task EXCEPT !.pc = "dl_exit", !.result = TaskFailure]
               ELSE [task EXCEPT !.pc = "dl_upload"]
    /\ UNCHANGED <<chunker, pipeVars, video, audioBlob, transcriptBlob, collection, api,
                   tmpFiles, reqCount>>

\* DlUpload followed by a verification of the stored object that can fail.
DlUpload_VerifiesAfter(out) ==
    /\ task.pc = "dl_upload"
    /\ audioBlob' = [audioBlob EXCEPT ![task.vid] = @ + 1]
    /\ task' = [task EXCEPT !.pc = "dl_exit", !.uploaded = TRUE,
                            !.result = IF out = "ok" THEN TaskSuccess ELSE TaskFailure]
    /\ UNCHANGED <<chunker, pipeVars, video, transcriptBlob, collection, api, tmpFiles,
                   reqCount>>

\* ingest_worker.py:76-92: upload_file under audio/{id}.mp3, then the success
\* result; an upload that raises stores nothing and is caught at line 94.
DlUpload(out) ==
    /\ task.pc = "dl_upload"
    /\ audioBlob' = [audioBlob EXCEPT ![task.vid] = IF out = "ok" THEN @ + 1 ELSE @]
    /\ task' = [task EXCEPT !.pc = "dl_exit", !.uploaded = (out = "ok"),
                            !.result = IF out = "ok" THEN TaskSuccess ELSE TaskFailure]
    /\ UNCHANGED <<chunker, pipeVars, video, transcriptBlob, collection, api, tmpFiles,
                   reqCount>>

\* ingest_worker.py:30: leaving the with block removes the temporary directory.
DlExit ==
    /\ task.pc = "dl_exit"
    /\ task' = [task EXCEPT !.pc = "ret", !.local = "none"]
    /\ UNCHANGED <<chunker, pipeVars, video, audioBlob, transcriptBlob, collection, api,
                   tmpFiles, reqCount>>

\* ------------------------------------------ transcribe_audio as a task
\* transcribe_worker.py:27-41: the clients are built outside the try; inside
\* it NamedTemporaryFile(delete=False) creates the file and get_object fills
\* it.  An exception of get_object goes to the handler of line 120.
TrFetch(out) ==
    /\ task.pc = "tr_fetch"
    /\ task' = CASE out = "ok" -> [task EXCEPT !.pc = "tr_whisper", !.temp = TRUE]
                 [] out = "fail" -> [task EXCEPT !.pc = "ret", !.temp = TRUE,
                                                 !.result = TaskFailure]
                 [] OTHER -> [task EXCEPT !.pc = "ret", !.result = TaskRaised]
    /\ tmpFiles' = IF out = "raise" THEN tmpFiles ELSE tmpFiles + 1
    /\ UNCHANGED <<chunker, pipeVars, video, audioBlob, transcriptBlob, collection, api,
                   reqCount>>

\* transcribe_worker.py:46-80: the speech-to-text call and the transcript data.
TrWhisper(out, text) ==
    /\ task.pc = "tr_whisper"
    /\ out # "ok" => text = EmptyText
    /\ task' = IF out = "ok"
               THEN [task EXCEPT !.pc = "tr_upload", !.text = Some(text)]
               ELSE [task EXCEPT !.pc = "tr_cleanup", !.result = TaskFailure]
    /\ UNCHANGED <<chunker, pipeVars, video, audioBlob, transcriptBlob, collection, api,
                   tmpFiles, reqCount>>

\* transcribe_worker.py:82-113: upload_bytes under transcripts/{id}.json and
\* the success result.
TrUpload(out) ==
    /\ task.pc = "tr_upload"
    /\ transcriptBlob' =
          [transcriptBlob EXCEPT ![task.vid] =
              IF out = "ok" THEN Some([text |-> task.text[1], language |-> "en"]) ELSE @]
    /\ task' = [task EXCEPT !.pc = "tr_cleanup", !.uploaded = (out = "ok"),
                            !.result = IF out = "ok" THEN TaskSuccess ELSE TaskFailure]
    /\ UNCHANGED <<chunker, pipeVars, video, audioBlob, collection, api, tmpFiles, reqCount>>

\* transcribe_worker.py:115-119: the finally of the inner try.
TrCleanup ==
    /\ task.pc = "tr_cleanup"
    /\ task' = [task EXCEPT !.pc = "ret", !.temp = FALSE]
    /\ tmpFiles' = IF task.temp THEN tmpFiles - 1 ELSE tmpFiles
    /\ UNCHANGED <<chunker, pipeVars, video, audioBlob, transcriptBlob, collection, api,
                   reqCount>>

\* ---------------------------------------------------- API endpoints
\* The two endpoints that run stages synchronously:
\* content_studio.py process_video_pipeline and transcripts.py
\* start_transcription.
Endpoints == {"studio", "transcripts"}

\* Whether a new task can be handed to the worker.
TaskFree == task.pc \in {"idle", "ret"}

StepEntry(step, status) == [step |-> step, status |-> status]

\* The response that ends a request.
Respond(frame, http) == [frame EXCEPT !.pc = "done", !.http = http]

\* content_studio.py:278-296 and transcripts.py:34-54: the row is loaded into
\* the session; a missing row is answered 404, and start_transcription
\* answers at once when the row has a transcript key.
ApiRequest(v, ep) ==
    /\ api.pc \in {"idle", "done"}
    /\ reqCount < MaxRequests
    /\ reqCount' = reqCount + 1
    /\ LET loaded == [IdleRequest EXCEPT
                        !.ep = ep, !.vid = v,
                        !.audio_s3_key = video[v].audio_s3_key,
                        !.transcript_s3_key = video[v].transcript_s3_key]
       IN  api' = CASE ~Visible(v) -> Respond([IdleRequest EXCEPT !.ep = ep, !.vid = v], "404")
                    [] ep = "transcripts" /\ video[v].transcript_s3_key # NULL ->
                          Respond(loaded, "200")
                    [] OTHER -> [loaded EXCEPT !.pc = "audio"]
    /\ UNCHANGED <<chunker, pipeVars, video, audioBlob, transcriptBlob, collection, task,
                   tmpFiles>>

\* content_studio.py:299-302, 314-315 and transcripts.py:57-58: download_audio
\* is dispatched unless the loaded row has an audio key.
ApiAudio ==
    /\ api.pc = "audio"
    /\ IF api.audio_s3_key = NULL
       THEN /\ TaskFree
            /\ task' = [IdleTask EXCEPT !.pc = "dl_extract", !.fn = "download_audio",
                                        !.vid = api.vid]
            /\ api' = [api EXCEPT !.pc = "audio_wait"]
       ELSE /\ task' = task
            /\ api' = [api EXCEPT
                         !.pc = "transcribe",
                         !.steps = IF api.ep = "studio"
                                   THEN Append(@, StepEntry("audio_download", "skipped"))
                                   ELSE @]
    /\ UNCHANGED <<chunker, pipeVars, video, audioBlob, transcriptBlob, collection, tmpFiles,
                   reqCount>>

\* What an endpoint does when a stage did not succeed: process_video_pipeline
\* catches everything and reports the step as failed (content_studio.py:
\* 309-314, 328-333); start_transcription raises HTTPException(500) on a
\* failure result (transcripts.py:61-62, 71-72) and lets any exception of
\* .get(), the timeout included, leave the handler, which is answered 500.
StageNotDone(step, expired) ==
    IF api.ep = "studio"
    THEN Respond([api EXCEPT !.steps = Append(@, StepEntry(step, "failed")),
                             !.timedOut = IF expired THEN step ELSE @], "200")
    ELSE Respond([api EXCEPT !.timedOut = IF expired THEN step ELSE @], "500")

\* content_studio.py:303-314 and transcripts.py:59-67: audio_task.get(timeout).
\* expired: the wait ends before the task has returned.
ApiAudioResult(expired) ==
    /\ api.pc = "audio_wait"
    /\ IF expired THEN task.pc # "ret" ELSE task.pc = "ret"
    /\ LET v == api.vid
           key == Some(AudioKey(YoutubeId(v)))
           done == ~expired /\ task.result.kind = "success"
       IN  /\ video' = IF done THEN [video EXCEPT ![v].audio_s3_key = key] ELSE video
           /\ api' = IF done
                     THEN [api EXCEPT
                             !.pc = "transcribe",
                             !.audio_s3_key = key,
                             !.transcript_s3_key = video[v].transcript_s3_key,
                             !.steps = IF api.ep = "studio"
                                       THEN Append(@, StepEntry("audio_download", "success"))
                                       ELSE @]
                     ELSE StageNotDone("audio_download", expired)
    /\ UNCHANGED <<chunker, pipeVars, audioBlob, transcriptBlob, collection, task, tmpFiles,
                   reqCount>>

\* content_studio.py:318-321, 333-334 and transcripts.py:69-70: transcribe_audio
\* is dispatched; process_video_pipeline skips it when the row has a
\* transcript key.
ApiTranscribe ==
    /\ api.pc = "transcribe"
    /\ IF api.ep = "studio" /\ api.transcript_s3_key # NULL
       THEN /\ task' = task
            /\ api' = [api EXCEPT !.pc = "index",
                                  !.steps = Append(@, StepEntry("transcribe", "skipped"))]
       ELSE /\ TaskFree
            /\ task' = [IdleTask EXCEPT !.pc = "tr_fetch", !.fn = "transcribe_audio",
                                        !.vid = api.vid, !.s3_key = api.audio_s3_key]
            /\ api' = [api EXCEPT !.pc = "transcribe_wait"]
    /\ UNCHANGED <<chunker, pipeVars, video, audioBlob, transcriptBlob, collection, tmpFiles,
                   reqCount>>

\* content_studio.py:322-333 and transcripts.py:70-78: transcribe_task.get(timeout).
ApiTranscribeResult(expired) ==
    /\ api.pc = "transcribe_wait"
    /\ IF expired THEN task.pc # "ret" ELSE task.pc = "ret"
    /\ LET v == api.vid
           key == Some(TranscriptKey(YoutubeId(v)))
           done == ~expired /\ task.result.kind = "success"
       IN  /\ video' = IF done THEN [video EXCEPT ![v].transcript_s3_key = key] ELSE video
           /\ api' = IF done
                     THEN IF api.ep = "studio"
                          THEN [api EXCEPT
                                  !.pc = "index",
                                  !.transcript_s3_key = key,
                                  !.steps = Append(@, StepEntry("transcribe", "success"))]
                          ELSE Respond([api EXCEPT !.transcript_s3_key = key], "200")
                     ELSE StageNotDone("transcribe", expired)
    /\ UNCHANGED <<chunker, pipeVars, audioBlob, transcriptBlob, collection, task, tmpFiles,
                   reqCount>>

\* content_studio.py:336-368: the transcript is read back and indexed through
\* get_vector_store(); any exception is reported as a failed step.
ApiIndex(embed_error, dup) ==
    /\ api.pc = "index"
    /\ LET v == api.vid
           found == transcriptBlob[v] # NULL
           r == index_transcript(collection, v, YoutubeId(v), transcriptBlob[v][1],
                                 EndpointMetadata(video[v]), embed_error, dup)
           ok == found /\ r.ok
       IN  /\ ~found => (embed_error = NULL /\ dup = "skip")
           /\ collection' = IF found THEN r.coll ELSE collection
           /\ api' = Respond([api EXCEPT !.steps =
                                 Append(@, StepEntry("vector_index",
                                                     IF ok THEN "success" ELSE "failed"))],
                             "200")
    /\ UNCHANGED <<chunker, pipeVars, video, audioBlob, transcriptBlob, task, tmpFiles,
                   reqCount>>

NextApi ==
    \/ \E v \in Items, enq_ok \in BOOLEAN : SyncVideo(v, enq_ok)
    \/ SyncCommit
    \/ \E v \in Items, ep \in Endpoints : ApiRequest(v, ep)
    \/ ApiAudio
    \/ \E expired \in BOOLEAN : ApiAudioResult(expired)
    \/ ApiTranscribe
    \/ \E expired \in BOOLEAN : ApiTranscribeResult(expired)
    \/ \E e \in EmbedErrors, dup \in DupPolicies : ApiIndex(e, dup)
    \/ \E out \in {"ok", "fail", "raise"}, produced \in LocalFiles : DlExtract(out, produced)
    \/ DlLocate
    \/ \E out \in {"ok", "raise"} : DlUpload(out)
    \/ DlExit
    \/ \E out \in {"ok", "fail", "raise"} : TrFetch(out)
    \/ \E out \in {"ok", "fail"}, text \in Texts : TrWhisper(out, text)
    \/ \E out \in {"ok", "raise"} : TrUpload(out)
    \/ TrCleanup

SpecApi == Init /\ [][NextApi]_vars

\* ------------------------------------------------------ chunk_transcript
\* Arguments of chunk_transcript: texts of up to MaxWords words of a few
\* lengths under small chunk sizes, and texts of 1200 characters under the
\* default parameters.
MaxWords == 3
WordLens == {1, 4, 9}
ChunkSizes == {5, 10}
Overlaps == {0, 10, 25}

\* The texts of n words whose lengths are drawn from WordLens; the i-th word
\* is named i.
TextsOfLen(n) == {[i \in 1..n |-> <<i, f[i]>>] : f \in [1..n -> WordLens]}

SmallTexts == UNION {TextsOfLen(n) : n \in 0..MaxWords}

\* 1200 characters: one unbroken run of characters, and 80 words of fourteen
\* characters (the last of fifteen) separated by single spaces.
UnbrokenText == << <<1, 1200>> >>
WordsText == [i \in 1..80 |-> <<i, IF i = 80 THEN 15 ELSE 14>>]

\* len(transcript_text) for a text whose words are separated by single spaces.
TextChars(words) == IF words = <<>> THEN 0 ELSE SumLen(words) - 1

ChunkCalls ==
    {[NoChunkCall EXCEPT !.transcript_text = t, !.chunk_size = c, !.overlap = o] :
        t \in SmallTexts, c \in ChunkSizes, o \in Overlaps}
    \cup {[NoChunkCall EXCEPT !.transcript_text = t] : t \in {UnbrokenText, WordsText}}

InitChunk ==
    /\ video = [v \in Items |-> NewVideo]
    /\ syncSeen = {}
    /\ syncCount = 0
    /\ queued_for_processing = 0
    /\ qQueue = [v \in Items |-> 0]
    /\ qPipeline = [v \in Items |-> 0]
    /\ jobs = 0
    /\ run = [w \in Workers |-> IdleRun]
    /\ runSeq = 0
    /\ audioBlob = [v \in Items |-> 0]
    /\ transcriptBlob = [v \in Items |-> NULL]
    /\ collection = {}
    /\ indexLog = <<>>
    /\ api = IdleRequest
    /\ task = IdleTask
    /\ tmpFiles = 0
    /\ reqCount = 0
    /\ chunker \in ChunkCalls

\* VectorStore.chunk_transcript(transcript_text, chunk_size, overlap).
ChunkCall ==
    /\ chunker.chunks = NULL
    /\ chunker' = [chunker EXCEPT !.chunks =
                      Some(chunk_transcript(chunker.transcript_text, chunker.chunk_size,
                                            chunker.overlap))]
    /\ UNCHANGED <<pipeVars, apiVars, video, audioBlob, transcriptBlob, collection>>

NextChunk == ChunkCall

SpecChunk == InitChunk /\ [][NextChunk]_vars

\* ================================================================= claims

\* C1: in every reachable state, an item whose processing_status is COMPLETE
\* has audio_s3_key set, transcript_s3_key set and indexed_at non-null.
CompleteImpliesKeysAndIndexedAt ==
    \A v \in Items :
        (Visible(v) /\ video[v].processing_status = COMPLETE)
            => /\ video[v].audio_s3_key # NULL
               /\ video[v].transcript_s3_key # NULL
               /\ video[v].indexed_at # NULL

\* C2: in every reachable state, an item whose processing_status is ERROR has
\* a non-null processing_error, whatever the failure message was.
ErrorImpliesProcessingError ==
    \A v \in Items :
        (Visible(v) /\ video[v].processing_status = ERROR)
            => video[v].processing_error # NULL

\* C3: a call made on an item whose audio_s3_key is set and whose
\* transcript_s3_key is unset does not call download_audio.
ResumeSkipsFetch ==
    \A w \in Workers :
        (run[w].startAudio /\ ~run[w].startTranscript) => "download" \notin run[w].calls

\* C4: a call made on an item whose transcript_s3_key is set does not call
\* transcribe_audio.
TranscriptSetSkipsTranscribe ==
    \A w \in Workers :
        run[w].startTranscript => "transcribe" \notin run[w].calls

\* C5: of two calls running concurrently for one item that was SYNCED when the
\* first of them started, at most one completes the fetch stage (the audio
\* blob is written once).
ConcurrentRunsFetchOnce ==
    \A w1, w2 \in Workers :
        (/\ w1 # w2
         /\ Active(w1) /\ Active(w2)
         /\ run[w1].vid = run[w2].vid
         /\ w1 \in run[w2].conc
         /\ run[w1].startStatus = SYNCED)
            => /\ ~(run[w1].audio_s3_key # NULL /\ run[w2].audio_s3_key # NULL)
               /\ audioBlob[run[w1].vid] <= 1

\* The chunk records the collection holds for one external id.
ChunksOf(coll, y) == {r \in coll : r.youtube_video_id = y}

\* C6: after two successive successful index_transcript calls for one external
\* id, the collection holds for that id exactly the records of the second call.
IdempotentIndexing ==
    LET n == Len(indexLog)
    IN  (/\ n >= 2
         /\ indexLog[n].op = "index" /\ indexLog[n].ok
         /\ indexLog[n - 1].op = "index" /\ indexLog[n - 1].ok
         /\ indexLog[n].yt = indexLog[n - 1].yt)
            => ChunksOf(collection, indexLog[n].yt) = indexLog[n].added

\* C7: a call made on an item whose status is COMPLETE calls no stage and
\* writes nothing to the item.
CompleteRerunIsNoOp ==
    \A w \in Workers :
        run[w].startStatus = COMPLETE
            => /\ run[w].calls = {}
               /\ run[w].last = "none"

\* C8: once a call has recorded COMPLETE, the last status that call has
\* recorded is never an earlier non-ERROR status.
NoRegressAfterComplete ==
    \A w \in Workers :
        run[w].complete => run[w].last \in {COMPLETE, ERROR}

RunRecordedComplete ==
    \E w \in Workers :
        /\ run[w].complete
        /\ run[w].pc = "done"
        /\ run[w].id >= 2

\* The transitions of the state machine of section 4.1.
NextStatus(s) ==
    CASE s = SYNCED -> AUDIO_DOWNLOADING
      [] s = AUDIO_DOWNLOADING -> AUDIO_DOWNLOADED
      [] s = AUDIO_DOWNLOADED -> TRANSCRIBING
      [] s = TRANSCRIBING -> TRANSCRIBED
      [] s = TRANSCRIBED -> INDEXING
      [] s = INDEXING -> COMPLETE
      [] OTHER -> "none"

AllowedTransition(old, new) ==
    \/ new = NextStatus(old)
    \/ new = ERROR /\ old \notin {COMPLETE, ERROR}
    \/ new = AUDIO_DOWNLOADING /\ old \in {ERROR, SYNCED}

\* C9: every change of an item's persisted processing_status is a forward
\* step, a move from a non-terminal state to ERROR, or a re-drive from ERROR
\* or SYNCED to AUDIO_DOWNLOADING.
OnlyAllowedTransitions ==
    [][\A v \in Items :
          video'[v].processing_status # video[v].processing_status
              => AllowedTransition(video[v].processing_status,
                                   video'[v].processing_status)]_vars

\* C10: when a call on an existing item returns a failure result, the item's
\* persisted status is ERROR and its processing_error is the returned message.
FailureIsRecorded ==
    [][\A w \in Workers :
          (/\ run[w].pc # "done"
           /\ run'[w].pc = "done"
           /\ run'[w].result.kind = "failure"
           /\ Visible(run[w].vid))
              => /\ video'[run[w].vid].processing_status = ERROR
                 /\ video'[run[w].vid].processing_error = run'[w].result.error]_vars

\* The step at which a call of process_video_pipeline returns, and whether
\* the item existed when the call started.
Returns(w) ==
    /\ run'[w].pc = "done"
    /\ run'[w].id # run[w].id \/ run[w].pc # "done"

Existed(w) ==
    IF Active(w) THEN run[w].startStatus # "absent"
                 ELSE run'[w].startStatus # "absent"

\* The names under which a failure result may report each stage.
StepNames(stage) ==
    CASE stage = "fetch" -> {"audio_download"}
      [] stage = "transcribe" -> {"transcription"}
      [] OTHER -> {"indexing", "index", "vector_index"}

\* C11: when a call returns a failure result after one of its stages failed,
\* the step of the result names that stage: the fetch stage, the
\* transcription stage or the indexing stage, never an unidentified one.
FailureNamesStage ==
    [][\A w \in Workers :
          (/\ Active(w)
           /\ Returns(w)
           /\ run'[w].result.kind = "failure"
           /\ run[w].failedStage # "none")
              => run'[w].result.step \in StepNames(run[w].failedStage)]_vars

\* C12: once a stage of a call has failed, the call invokes no later stage:
\* no transcribe_audio or index_transcript after a fetch failure, and no
\* index_transcript after a transcription failure.
StageFailureEndsRun ==
    \A w \in Workers :
        /\ run[w].failedStage = "fetch"
              => run[w].calls \cap {"transcribe", "index"} = {}
        /\ run[w].failedStage = "transcribe" => "index" \notin run[w].calls

TranscribeFailedRun ==
    \E w \in Workers :
        /\ run[w].failedStage = "transcribe"
        /\ run[w].pc = "upd_error"
        /\ run[w].calls = {"download", "transcribe"}

\* Whether a collaborator call of the returning call has failed: download_audio,
\* transcribe_audio, or the embedding and collection calls of index_transcript.
CollaboratorFailed(w) ==
    Active(w) /\ run[w].failedStage \in {"fetch", "transcribe", "index"}

\* C13: a call on an existing item none of whose collaborator calls failed
\* returns a success result carrying the audio key and the transcript key, and
\* leaves the item COMPLETE with indexed_at set.
AllSucceedEndsComplete ==
    [][\A w \in Workers :
          (Returns(w) /\ Existed(w) /\ ~CollaboratorFailed(w))
              => /\ run'[w].result.kind = "success"
                 /\ run'[w].result.audio_s3_key # NULL
                 /\ run'[w].result.transcript_s3_key # NULL
                 /\ video'[run'[w].vid].processing_status = COMPLETE
                 /\ video'[run'[w].vid].indexed_at # NULL]_vars

\* C14: when a call on an existing item returns, the item's persisted status
\* is COMPLETE or ERROR; no call ends with the item left in SYNCED or in an
\* in-progress status.
RunEndsCompleteOrError ==
    [][\A w \in Workers :
          (Returns(w) /\ Existed(w))
              => video'[run'[w].vid].processing_status \in {COMPLETE, ERROR}]_vars

\* C15: in a call on an item that existed when it started, the status last
\* persisted by the call is the stage's in-progress status whenever the call
\* is about to invoke the stage (AUDIO_DOWNLOADING before download_audio,
\* TRANSCRIBING before transcribe_audio, INDEXING before index_transcript),
\* and the stage's completion status once the stage has finished and the next
\* has not started.
StatusPersistedAroundStages ==
    \A w \in Workers :
        (Active(w) /\ run[w].startStatus # "absent")
            => /\ run[w].pc = "download" => run[w].last = AUDIO_DOWNLOADING
               /\ run[w].pc = "upd_transcribing" => run[w].last = AUDIO_DOWNLOADED
               /\ run[w].pc = "transcribe" => run[w].last = TRANSCRIBING
               /\ run[w].pc = "upd_indexing" => run[w].last = TRANSCRIBED
               /\ run[w].pc \in {"fetch_transcript", "index"}
                     => run[w].last = INDEXING

\* C16: when a call on an existing item whose transcript_s3_key was unset
\* returns after transcribe_audio reported a provider failure, the item is in
\* ERROR with the provider's message as processing_error, its audio_s3_key is
\* set and its transcript_s3_key is still unset.
TranscriberFailureOutcome ==
    [][\A w \in Workers :
          (/\ Active(w)
           /\ Returns(w)
           /\ run[w].failedStage = "transcribe"
           /\ run[w].step = "transcription"
           /\ run[w].startStatus # "absent"
           /\ ~run[w].startTranscript)
              => LET item == video'[run[w].vid]
                 IN  /\ item.processing_status = ERROR
                     /\ item.processing_error = run[w].error_msg
                     /\ item.audio_s3_key # NULL
                     /\ item.transcript_s3_key = NULL]_vars

\* C17: no step of a pipeline call or of a sync clears a key of an item: an
\* audio_s3_key that is set stays set, and so does a transcript_s3_key.
KeysNeverCleared ==
    [][\A v \in Items :
          /\ video[v].audio_s3_key # NULL => video'[v].audio_s3_key # NULL
          /\ video[v].transcript_s3_key # NULL
                => video'[v].transcript_s3_key # NULL]_vars

KeysKeptAfterFailureAndSync ==
    \E v \in Items :
        /\ video[v].audio_s3_key # NULL
        /\ video[v].transcript_s3_key # NULL
        /\ video[v].processing_status = ERROR
        /\ v \in syncSeen
        /\ qQueue[v] > 0

\* C18: a call whose speech-to-text response carried an empty text fails in
\* its transcription stage: it stores no transcript key, persists neither
\* TRANSCRIBED nor INDEXING, and does not call index_transcript.
EmptyTextFailsTranscription ==
    \A w \in Workers :
        (Active(w) /\ run[w].transcript_text = Some(EmptyText))
            => /\ run[w].failedStage = "transcribe"
               /\ run[w].pc \in {"upd_error", "except"}
               /\ run[w].transcript_s3_key = NULL
               /\ run[w].last \notin {TRANSCRIBED, INDEXING}
               /\ "index" \notin run[w].calls

PendingJobs(v) ==
    qQueue[v] + qPipeline[v]
        + Cardinality({w \in Workers : Active(w) /\ run[w].vid = v})

\* C20: in every reachable state, whatever the interleaving of syncs and
\* workers, at most one pipeline job of an item is queued or running.
AtMostOneJobPerItem ==
    \A v \in Items : PendingJobs(v) <= 1

\* C21: whenever a worker starts a process_video_pipeline call for a job that
\* sync_channel_videos enqueued, the item is in committed storage: no call
\* starts on an item whose row other sessions cannot see.
JobRunsOnCommittedItem ==
    \A w \in Workers : run[w].startStatus # "absent"

\* C22: a queue_video_processing task schedules exactly one
\* process_video_pipeline job, for its own item, and does nothing else: the
\* items' rows, the blob store, the vector index and the workers' calls are
\* as they were, so the task returns without running the pipeline.
EnqueueOnlySchedules ==
    [][\A v \in Items :
          qQueue'[v] < qQueue[v]
              => /\ qQueue'[v] = qQueue[v] - 1
                 /\ qPipeline' = [qPipeline EXCEPT ![v] = @ + 1]
                 /\ UNCHANGED <<video, audioBlob, transcriptBlob, collection, run,
                                runSeq>>]_vars

PipelineJobScheduled ==
    \E v \in Items :
        /\ Visible(v)
        /\ jobs = 1
        /\ qQueue[v] = 0
        /\ qPipeline[v] = 1
        /\ runSeq = 0

\* C23: a step of a process_video_pipeline call changes nothing of any other
\* item: not its row (status, keys, error, indexed_at), not its blobs, and
\* not the chunks that carry its external id.
ItemIsolation ==
    [][\A w \in Workers :
          run'[w] # run[w]
              => \A b \in Items \ {run'[w].vid} :
                    /\ video'[b] = video[b]
                    /\ audioBlob'[b] = audioBlob[b]
                    /\ transcriptBlob'[b] = transcriptBlob[b]
                    /\ ChunksOf(collection', YoutubeId(b))
                         = ChunksOf(collection, YoutubeId(b))]_vars

FailureBesideOtherItem ==
    \E w1 \in Workers, w2 \in Workers :
        /\ run[w1].pc = "done"
        /\ run[w1].result.kind = "failure"
        /\ Active(w2)
        /\ run[w2].vid # run[w1].vid
        /\ run[w2].id < run[w1].id
        /\ run[w2].last = TRANSCRIBING
        /\ video[run[w2].vid].processing_status = TRANSCRIBING
        /\ video[run[w1].vid].processing_status = ERROR

\* C24: within a call the stages follow their data dependency: transcribe_audio
\* is invoked only after download_audio of the same call has produced an audio
\* key and the audio object exists, and index_transcript only after
\* transcribe_audio has produced a transcript key and the transcript exists.
StagesOrderedByData ==
    \A w \in Workers :
        /\ (run[w].pc = "transcribe" \/ "transcribe" \in run[w].calls)
              => /\ "download" \in run[w].calls
                 /\ run[w].audio_s3_key # NULL
                 /\ audioBlob[run[w].vid] > 0
        /\ (run[w].pc = "index" \/ "index" \in run[w].calls)
              => /\ "transcribe" \in run[w].calls
                 /\ run[w].transcript_s3_key # NULL
                 /\ transcriptBlob[run[w].vid] # NULL

AllStagesCalledInOrder ==
    \E w \in Workers :
        /\ run[w].pc = "mark_complete"
        /\ run[w].calls = {"download", "transcribe", "index"}

\* The columns of an item that the pipeline maintains.
PipelineFields(row) ==
    <<row.audio_s3_key, row.transcript_s3_key, row.processing_status,
      row.processing_error, row.indexed_at>>

\* C25: once an item has been created, its audio_s3_key, transcript_s3_key,
\* status, error and indexed_at change only in a step of a
\* process_video_pipeline call for that item; no endpoint and no sync
\* changes them.
OnlyOrchestratorWritesItem ==
    [][\A v \in Items :
          (video[v].row # "absent" /\ PipelineFields(video'[v]) # PipelineFields(video[v]))
              => \E w \in Workers : run'[w] # run[w] /\ run'[w].vid = v]_vars

\* Whether a response reports the given stage as failed.
ReportsFailed(frame, step) ==
    \/ frame.http = "500"
    \/ \E i \in DOMAIN frame.steps :
          frame.steps[i].step = step /\ frame.steps[i].status = "failed"

\* C26: when the bounded wait of an endpoint for a stage result expires, the
\* endpoint does not report the stage as failed, and it leaves the items'
\* rows as they were.
TimeoutIsNotFailure ==
    [][(api.timedOut = "none" /\ api'.timedOut # "none")
          => /\ ~ReportsFailed(api', api'.timedOut)
             /\ video' = video]_vars

\* C27: the audio object is written only by the upload step of a
\* download_audio call whose download has left a local audio file, and a
\* download_audio call that returns a failure result has written no object.
FailedDownloadWroteNothing ==
    [][/\ audioBlob' # audioBlob
            => /\ task.fn = "download_audio"
               /\ task.pc = "dl_upload"
               /\ task.local # "none"
       /\ (task'.fn = "download_audio" /\ task'.result.kind = "failure")
            => (~task'.uploaded /\ audioBlob'[task'.vid] = audioBlob[task'.vid])]_vars

DownloadFailedAtUpload ==
    /\ task.fn = "download_audio"
    /\ task.pc = "dl_exit"
    /\ task.local # "none"
    /\ task.result.kind = "failure"
    /\ audioBlob[task.vid] = 0

\* C28: after a transcribe_audio call has returned, with a success or a
\* failure result, the temporary audio file the call created no longer
\* exists.
TempFileRemovedOnReturn ==
    (task.fn = "transcribe_audio" /\ task.pc = "ret") => ~task.temp

\* The number of leading tokens chunk i (i > 1) carries over from chunk i-1:
\* the trailing overlap/10 tokens of chunk i-1, all of it when it is shorter.
RetainedTokens(chunks, i, overlap) ==
    IF overlap \div 10 <= 0 THEN 0
    ELSE IF overlap \div 10 >= Len(chunks[i - 1]) THEN Len(chunks[i - 1])
    ELSE overlap \div 10

\* Chunk i without its leading overlap tokens.
UniqueContent(chunks, i, overlap) ==
    IF i = 1 THEN chunks[1]
    ELSE SubSeq(chunks[i], RetainedTokens(chunks, i, overlap) + 1, Len(chunks[i]))

RECURSIVE ConcatUnique(_, _, _)
ConcatUnique(chunks, i, overlap) ==
    IF i > Len(chunks) THEN <<>>
    ELSE UniqueContent(chunks, i, overlap) \o ConcatUnique(chunks, i + 1, overlap)

\* The leading overlap tokens of chunk i are the trailing tokens of chunk i-1.
OverlapIsTailOfPrevious(chunks, i, overlap) ==
    LET n == RetainedTokens(chunks, i, overlap)
        prev == chunks[i - 1]
    IN  /\ n <= Len(chunks[i])
        /\ SubSeq(chunks[i], 1, n) = SubSeq(prev, Len(prev) - n + 1, Len(prev))

\* C29: for every token sequence and every (chunk_size, overlap), removing
\* from each chunk after the first its leading overlap tokens (the trailing
\* overlap/10 tokens retained from the previous chunk) and concatenating the
\* chunks gives back exactly the whitespace-split token sequence of the text:
\* no token is dropped and none is duplicated.
ChunkingRoundTrip ==
    chunker.chunks # NULL =>
        LET chunks == chunker.chunks[1]
        IN  /\ \A i \in 2..Len(chunks) :
                   OverlapIsTailOfPrevious(chunks, i, chunker.overlap)
            /\ ConcatUnique(chunks, 1, chunker.overlap) = chunker.transcript_text

\* A call that returned at least three chunks under a non-zero overlap, the
\* first chunk shorter than the overlap and the last made of overlap tokens only.
OverlappingChunksReturned ==
    /\ chunker.chunks # NULL
    /\ chunker.overlap \div 10 = 2
    /\ Len(chunker.chunks[1]) >= 3
    /\ Len(chunker.chunks[1][1]) = 1
    /\ UniqueContent(chunker.chunks[1], Len(chunker.chunks[1]), chunker.overlap) = <<>>

\* C30: with chunk_size = 500 and overlap = 50, a transcript text of 1200
\* characters yields exactly 3 chunks, which index_transcript records with
\* chunk_index 0, 1, 2 and total_chunks = 3.
TwelveHundredCharsGiveThreeChunks ==
    (/\ chunker.chunks # NULL
     /\ chunker.chunk_size = DefaultChunkSize
     /\ chunker.overlap = DefaultOverlap
     /\ TextChars(chunker.transcript_text) = 1200)
    => LET records == ChunkRecords(1, 1, chunker.chunks[1])
       IN  /\ Len(chunker.chunks[1]) = 3
           /\ {r.chunk_index : r \in records} = {0, 1, 2}
           /\ \A r \in records : r.total_chunks = 3

\* C31: every successful index_transcript call that produced n chunks handed
\* to the collection n records whose ids are exactly {externalID}_chunk_0 ..
\* {externalID}_chunk_{n-1}, pairwise distinct; the record with id suffix i
\* has chunk_index = i and total_chunks = n; the embeddings were obtained in
\* one embed call over all n chunks; and the call returned n.
IndexedRecordsNumbered ==
    \A k \in 1..Len(indexLog) :
        LET e == indexLog[k]
            n == Len(e.chunks)
        IN  (e.op = "index" /\ e.ok) =>
                /\ {r.id : r \in e.added} = {<<e.yt, i>> : i \in 0..(n - 1)}
                /\ Cardinality(e.added) = n
                /\ \A r \in e.added : /\ r.chunk_index = r.id[2]
                                      /\ r.total_chunks = n
                                      /\ r.document = e.chunks[r.chunk_index + 1]
                /\ e.embedded = <<e.chunks>>
                /\ e.n = n

\* A successful index_transcript call that produced three chunks.
ThreeChunksIndexed ==
    \E k \in 1..Len(indexLog) :
        indexLog[k].op = "index" /\ indexLog[k].ok /\ Len(indexLog[k].chunks) = 3

\* C32: the chunks written by the indexing stage of process_video_pipeline
\* carry a snapshot of the owning item's metrics: views, likes, title and
\* duration of each chunk written equal the item's views, likes, title and
\* duration_seconds at the time of indexing.
PipelineChunksCarryMetrics ==
    [][\A w \in Workers :
          (run[w].pc = "index" /\ run'[w].pc = "mark_complete") =>
              \A r \in collection' \ collection :
                  LET row == video[run[w].vid]
                  IN  /\ r.views = row.views
                      /\ r.likes = row.likes
                      /\ r.title = row.title
                      /\ r.duration = row.duration_seconds]_vars

\* C34: chunk_size is a maximum: for every text and every chunk_size >= 1,
\* each chunk chunk_transcript returns has at most chunk_size characters.
ChunkSizeIsMaximum ==
    (chunker.chunks # NULL /\ chunker.chunk_size >= 1) =>
        \A i \in 1..Len(chunker.chunks[1]) :
            TextChars(chunker.chunks[1][i]) <= chunker.chunk_size

\* C35: every chunk chunk_transcript returns after the first holds at least
\* one token that is not part of the overlap tail carried over from the chunk
\* before it; the remainder flushed last is never made of overlap tokens only.
LaterChunksBringNewTokens ==
    chunker.chunks # NULL =>
        \A i \in 2..Len(chunker.chunks[1]) :
            UniqueContent(chunker.chunks[1], i, chunker.overlap) # <<>>

\* C36: a failed index_transcript call leaves the vector index unchanged: when
\* the transcript text is empty or the embedding call fails, the call raises
\* and has neither added nor deleted a chunk record.
FailedIndexLeavesIndexUnchanged ==
    [][(/\ Len(indexLog') = Len(indexLog) + 1
        /\ indexLog'[Len(indexLog')].op = "index"
        /\ ~indexLog'[Len(indexLog')].ok
        /\ indexLog'[Len(indexLog')].error \in {EmptyTextMsg, "provider timeout"})
          => collection' = collection]_vars

\* An index_transcript call failed at the embedding call, and another on an
\* empty text, for an external id the collection holds chunks for.
IndexFailedOnIndexedItem ==
    \E j, k \in 1..Len(indexLog) :
        /\ indexLog[j].op = "index" /\ ~indexLog[j].ok
        /\ indexLog[j].error = "provider timeout"
        /\ indexLog[k].op = "index" /\ ~indexLog[k].ok
        /\ indexLog[k].error = EmptyTextMsg
        /\ indexLog[j].yt = indexLog[k].yt
        /\ ChunksOf(collection, indexLog[j].yt) # {}

\* C37: in every reachable state an item whose status is COMPLETE has no
\* recorded failure cause (processing_error is null), also when the run that
\* completed it followed a failed run of the same item.
CompleteHasNoError ==
    \A v \in Items :
        video[v].processing_status = COMPLETE => video[v].processing_error = NULL

\* C38: in sync_channel_videos a failure to enqueue one item does not abort
\* the batch: every loop iteration creates or updates its item with the
\* fetched data whether or not its enqueue call succeeded, leaves the items
\* visited before it in the batch, and raises the counter reported as
\* queued_for_processing exactly when the enqueue call of the item succeeded,
\* so that the reported count is the number of successful enqueue calls.
EnqueueFailureKeepsBatch ==
    [][/\ syncCount' = syncCount + 1 =>
            \E v \in Items \ syncSeen :
                /\ syncSeen' = syncSeen \cup {v}
                /\ video'[v].row \in {"flushed", "committed"}
                /\ video'[v] = WithVideoData(video'[v], v)
                /\ \A u \in Items \ {v} : video'[u] = video[u]
                /\ queued_for_processing' - queued_for_processing = jobs' - jobs
                /\ jobs' - jobs = qQueue'[v] - qQueue[v]
                /\ jobs' - jobs \in {0, 1}
       /\ syncCount' = syncCount =>
            \/ queued_for_processing' = queued_for_processing
            \/ syncSeen' = {}
       /\ syncSeen' = {} => queued_for_processing' = 0]_vars

\* One request visited two new items; the enqueue call of one failed, the
\* other's succeeded and is counted, and both rows are part of the transaction.
BatchWithOneFailedEnqueue ==
    /\ syncSeen = Items
    /\ syncCount = 2
    /\ \A v \in Items : video[v].row = "flushed" /\ video[v].views = VideoData(v).views
    /\ jobs = 1
    /\ queued_for_processing = 1

\* C39: whenever the vector index holds chunks for an item's external id, the
\* item's persisted status is INDEXING, COMPLETE or ERROR; no operation, the
\* content-studio endpoints included, indexes an item and leaves it SYNCED.
IndexedItemIsPastIndexing ==
    \A v \in Items :
        ChunksOf(collection, YoutubeId(v)) # {}
            => video[v].processing_status \in {INDEXING, COMPLETE, ERROR}

====
